---- MODULE Spec2Model ----
(***************************************************************************)
(* A model of configure_nsx_manager.py: the input validators, the two IP   *)
(* pool creation calls, the registrations, the licence, the segment id     *)
(* range, the controller deployment, the two cluster preparation loops,    *)
(* the transport zone, the lookups by name and main.                       *)
(*                                                                         *)
(* Spec runs one function on arguments drawn from bounded sets, SpecBoth   *)
(* runs the two pool functions on the same arguments, and SpecMain is a    *)
(* whole run of main.                                                      *)
(*                                                                         *)
(* Python strings are sequences of one-character strings, so that split,   *)
(* the regular expression and the IPv4 parser work on characters.  Python  *)
(* integers are unbounded; TLC's are 32 bit, so the integer of an IPv4     *)
(* address is kept as two 16-bit halves [hi, lo] and only differences of   *)
(* addresses are turned into one number.                                   *)
(***************************************************************************)
EXTENDS Integers, Sequences, FiniteSets, TLC

VARIABLES
    pc,      \* position of the program: the function about to run, or a step inside it
    frame,   \* parameters and locals of the function being run
    log,     \* what the program did to the outside, in order: requests, sleeps, lookups
    ret,     \* how the function ended: returned tuple, raised exception or process exit
    src,     \* the arguments as the caller composed them, before they became strings
    mainv    \* the locals of main when a whole run is made, [running |-> FALSE] otherwise

vars == <<pc, frame, log, ret, src, mainv>>

(***************************************************************************)
(* Bounds of the model                                                     *)
(***************************************************************************)
MaxMaskLen == 4
MaxDns == 2
MaxRanges == 2
MaxHosts == 2
MaxDatastores == 4
MaxClusters == 3

(***************************************************************************)
(* Strings                                                                 *)
(***************************************************************************)
Digits == <<"0", "1", "2", "3", "4", "5", "6", "7", "8", "9">>

IsDigit(c) == \E d \in 1..10 : Digits[d] = c

DigitVal(c) == (CHOOSE d \in 1..10 : Digits[d] = c) - 1

RECURSIVE StrToInt(_)
StrToInt(s) ==
    IF s = <<>> THEN 0
    ELSE StrToInt(SubSeq(s, 1, Len(s) - 1)) * 10 + DigitVal(s[Len(s)])

RECURSIVE IntToStr(_)
IntToStr(n) ==
    IF n < 10 THEN <<Digits[n + 1]>>
    ELSE IntToStr(n \div 10) \o <<Digits[(n % 10) + 1]>>

\* str.split(sep) with a one-character separator: empty pieces are kept
RECURSIVE Split(_, _)
Split(s, sep) ==
    IF \A i \in 1..Len(s) : s[i] # sep THEN <<s>>
    ELSE LET k == CHOOSE i \in 1..Len(s) :
                      s[i] = sep /\ \A j \in 1..(i - 1) : s[j] # sep
         IN  <<SubSeq(s, 1, k - 1)>> \o Split(SubSeq(s, k + 1, Len(s)), sep)

\* sep.join(parts)
RECURSIVE Join(_, _)
Join(parts, sep) ==
    IF parts = <<>> THEN <<>>
    ELSE IF Len(parts) = 1 THEN parts[1]
    ELSE parts[1] \o <<sep>> \o Join(Tail(parts), sep)

(***************************************************************************)
(* ipaddress.IPv4Address                                                   *)
(***************************************************************************)
\* one octet of a dotted quad: one to three decimal digits, at most 255
OctetOk(o) ==
    /\ Len(o) \in 1..3
    /\ \A i \in 1..Len(o) : IsDigit(o[i])
    /\ StrToInt(o) <= 255

\* IPv4Address(s) raises AddressValueError
AddressValueError(s) ==
    LET octets == Split(s, ".")
    IN  \/ s = <<>>
        \/ \E i \in 1..Len(s) : s[i] = "/"
        \/ Len(octets) # 4
        \/ \E i \in 1..Len(octets) : ~OctetOk(octets[i])

\* int(IPv4Address(s)) as two 16-bit halves
IPv4Int(s) ==
    LET octets == Split(s, ".")
    IN  [hi |-> StrToInt(octets[1]) * 256 + StrToInt(octets[2]),
         lo |-> StrToInt(octets[3]) * 256 + StrToInt(octets[4])]

\* str(IPv4Address(s))
IPv4Str(s) ==
    LET v == IPv4Int(s)
    IN  Join(<<IntToStr(v.hi \div 256), IntToStr(v.hi % 256),
               IntToStr(v.lo \div 256), IntToStr(v.lo % 256)>>, ".")

\* a - b for two address integers
IntSub(a, b) == (a.hi - b.hi) * 65536 + (a.lo - b.lo)

(***************************************************************************)
(* Validators                                                              *)
(***************************************************************************)
\* ip_mask_re.match(mask): the pattern /\d{1,2} matched at the start of the
\* string; the length of the match, or -1 for None
ip_mask_re_match(mask) ==
    IF Len(mask) >= 2 /\ mask[1] = "/" /\ IsDigit(mask[2])
    THEN IF Len(mask) >= 3 /\ IsDigit(mask[3]) THEN 3 ELSE 2
    ELSE -1

ip_mask_valid(mask) == ip_mask_re_match(mask) # -1 /\ Len(mask) <= 3

ip_valid(ip_address) == ~AddressValueError(ip_address)

(***************************************************************************)
(* Events of the log and endings of a call                                 *)
(***************************************************************************)
\* HTTP statuses the manager may answer with
Statuses == {200, 201, 400}

\* the statuses it answers with in a whole run: each is the success status of
\* some calls and a failure for the others
RunStatuses == {200, 201}

Answers == IF mainv.running THEN RunStatuses ELSE Statuses

PoolPath == "/api/2.0/services/ipam/pools/scope/globalroot-0"

HttpRequest(method, path, body, response_status) ==
    [ev |-> "http", method |-> method, path |-> path, body |-> body,
     status |-> response_status]

Sleep(secs) == [ev |-> "sleep", secs |-> secs]

\* `return status, value` at source line `line`
Return(line, status, value) ==
    [outcome |-> "return", at |-> line, status |-> status, value |-> value]

\* an exception that leaves the function at source line `line`
Raise(line, exc) == [outcome |-> "raise", at |-> line, exc |-> exc]

\* exit(code) at source line `line`
Exit(line, code) == [outcome |-> "exit", at |-> line, code |-> code]

\* a function evaluated as a whole: how it ends and the requests it sent
Ends(ending) == [end |-> ending, sent |-> <<>>]

EndsAfter(requests, ending) == [end |-> ending, sent |-> requests]

\* an ending together with the value a local variable had when it was reached
WithLocal(name, value, r) == [r EXCEPT !.end = @ @@ (name :> value)]

(***************************************************************************)
(* create_vtep_ip_pool                                                     *)
(***************************************************************************)
\* a loop that remembers the last invalid entry in place of returning on the first
vtep_dns_invalid_last(vtep_dns_list) ==
    LET bad == {i \in 1..Len(vtep_dns_list) : ~ip_valid(vtep_dns_list[i])}
    IN  IF bad = {} THEN 0 ELSE CHOOSE i \in bad : \A j \in bad : i >= j

\* the loop over vtep_dns_list: index of the entry it returns on, 0 if none
vtep_dns_invalid(vtep_dns_list) ==
    LET bad == {i \in 1..Len(vtep_dns_list) : ~ip_valid(vtep_dns_list[i])}
    IN  IF bad = {} THEN 0 ELSE CHOOSE i \in bad : \A j \in bad : i <= j

\* the size of a range without its last address
vtep_host_count_add_exclusive(ip_start, ip_end) == IntSub(ip_end, ip_start)

\* host_count += (ip_end - ip_start) + 1
vtep_host_count_add(ip_start, ip_end) == IntSub(ip_end, ip_start) + 1

\* the loop over vtep_range from its k-th element on
RECURSIVE vtep_range_loop(_, _, _)
vtep_range_loop(vtep_range, k, host_count) ==
    IF k > Len(vtep_range) THEN [exit |-> "end", host_count |-> host_count]
    ELSE LET r == vtep_range[k]
             ip == Split(r, "-")
         IN  IF AddressValueError(ip[1])
             THEN [exit |-> "AddressValueError", r |-> r]
             ELSE IF Len(ip) < 2
             THEN [exit |-> "IndexError", r |-> r]
             ELSE IF AddressValueError(ip[2])
             THEN [exit |-> "AddressValueError", r |-> r]
             ELSE vtep_range_loop(vtep_range, k + 1,
                      host_count + vtep_host_count_add(IPv4Int(ip[1]), IPv4Int(ip[2])))

\* the comparison without the factor of two
vtep_host_count_low_single(host_count, number_of_hosts) ==
    host_count < number_of_hosts

\* if host_count < (2 * number_of_hosts)
vtep_host_count_low(host_count, number_of_hosts) ==
    host_count < (2 * number_of_hosts)

\* the XML body of the VTEP-Pool request
vtep_xml_string(vtep_mask, vtep_gateway, dns_suffix, vtep_dns_list, vtep_range) ==
    [name |-> "VTEP-Pool",
     prefixLength |-> vtep_mask,
     gateway |-> vtep_gateway,
     dnsSuffix |-> dns_suffix,
     dnsServers |-> vtep_dns_list,
     ipRanges |-> [k \in 1..Len(vtep_range) |->
                      LET ip == Split(vtep_range[k], "-")
                      IN  [startAddress |-> ip[1], endAddress |-> ip[2]]]]

\* the whole function; response_status is the HTTP status the manager answers
\* with if the request is sent
create_vtep_ip_pool(ip_pool_list, ip_pool_mask, ip_pool_gateway, number_of_hosts, ip_pool_dns, dns_suffix, response_status) ==
    LET vtep_dns_list == Split(ip_pool_dns, ",")
        d == vtep_dns_invalid(vtep_dns_list)
        vtep_range == Split(ip_pool_list, ",")
        loop == vtep_range_loop(vtep_range, 1, 0)
        vtep_mask == Tail(ip_pool_mask)
        vtep_gateway == IPv4Str(ip_pool_gateway)
        request == HttpRequest("POST", PoolPath,
                       vtep_xml_string(vtep_mask, vtep_gateway, dns_suffix,
                                       vtep_dns_list, vtep_range),
                       response_status)
    IN  IF d # 0
        THEN Ends(Return(592, -1, <<"Invalid DNS address in ip_pool_dns", vtep_dns_list[d]>>))
        ELSE IF loop.exit = "AddressValueError"
        THEN Ends(Return(608, -1, <<"invalid IP range in ip_pool_list", loop.r>>))
        ELSE IF loop.exit = "IndexError"
        THEN Ends(Raise(605, "IndexError"))
        ELSE WithLocal("host_count", loop.host_count,
             IF vtep_host_count_low(loop.host_count, number_of_hosts)
        THEN Ends(Return(612, -1, <<"count of ip addresses < (number_of_hosts * 2)",
                               loop.host_count, number_of_hosts>>))
        ELSE IF ~ip_mask_valid(ip_pool_mask)
        THEN Ends(Return(616, -1, <<"Invalid ip_pool_mask", ip_pool_mask>>))
        ELSE IF ~ip_valid(ip_pool_gateway)
        THEN Ends(Return(625, -1, <<"Invalid ip_pool_gateway", ip_pool_gateway>>))
        ELSE IF response_status # 201
        THEN EndsAfter(<<request>>, Return(663, -1, <<"response.read()">>))
        ELSE EndsAfter(<<request>>, Return(666, 0, <<"response.read()">>)))

(***************************************************************************)
(* create_controller_ip_pool                                               *)
(***************************************************************************)
\* the loop over vtep_dns_list: index of the entry it returns on, 0 if none
controller_dns_invalid(vtep_dns_list) ==
    LET bad == {i \in 1..Len(vtep_dns_list) : ~ip_valid(vtep_dns_list[i])}
    IN  IF bad = {} THEN 0 ELSE CHOOSE i \in bad : \A j \in bad : i <= j

\* the size of a range without its last address
controller_host_count_add_exclusive(ip_start, ip_end) == IntSub(ip_end, ip_start)

\* host_count += (ip_end - ip_start) + 1
controller_host_count_add(ip_start, ip_end) == IntSub(ip_end, ip_start) + 1

\* the loop over vtep_range from its k-th element on
RECURSIVE controller_range_loop(_, _, _)
controller_range_loop(vtep_range, k, host_count) ==
    IF k > Len(vtep_range) THEN [exit |-> "end", host_count |-> host_count]
    ELSE LET r == vtep_range[k]
             ip == Split(r, "-")
         IN  IF AddressValueError(ip[1])
             THEN [exit |-> "AddressValueError", r |-> r]
             ELSE IF Len(ip) < 2
             THEN [exit |-> "IndexError", r |-> r]
             ELSE IF AddressValueError(ip[2])
             THEN [exit |-> "AddressValueError", r |-> r]
             ELSE controller_range_loop(vtep_range, k + 1,
                      host_count + controller_host_count_add(IPv4Int(ip[1]), IPv4Int(ip[2])))

\* the comparison with <= in place of <
controller_host_count_low_or_equal(host_count) == host_count <= 3

\* if host_count < 3
controller_host_count_low(host_count) == host_count < 3

\* the XML body of the Controller-Pool request
controller_xml_string(vtep_mask, vtep_gateway, ip_pool_suffix, vtep_dns_list, vtep_range) ==
    [name |-> "Controller-Pool",
     prefixLength |-> vtep_mask,
     gateway |-> vtep_gateway,
     dnsSuffix |-> ip_pool_suffix,
     dnsServers |-> vtep_dns_list,
     ipRanges |-> [k \in 1..Len(vtep_range) |->
                      LET ip == Split(vtep_range[k], "-")
                      IN  [startAddress |-> ip[1], endAddress |-> ip[2]]]]

create_controller_ip_pool(ip_pool_list, ip_pool_mask, ip_pool_gateway, ip_pool_dns, ip_pool_suffix, response_status) ==
    LET vtep_dns_list == Split(ip_pool_dns, ",")
        d == controller_dns_invalid(vtep_dns_list)
        vtep_range == Split(ip_pool_list, ",")
        loop == controller_range_loop(vtep_range, 1, 0)
        vtep_mask == Tail(ip_pool_mask)
        vtep_gateway == IPv4Str(ip_pool_gateway)
        request == HttpRequest("POST", PoolPath,
                       controller_xml_string(vtep_mask, vtep_gateway, ip_pool_suffix,
                                             vtep_dns_list, vtep_range),
                       response_status)
    IN  IF d # 0
        THEN Ends(Return(679, -1, <<"Invalid DNS address in ip_pool_dns", vtep_dns_list[d]>>))
        ELSE IF loop.exit = "AddressValueError"
        THEN Ends(Return(695, -1, <<"invalid IP range in ip_pool_list", loop.r>>))
        ELSE IF loop.exit = "IndexError"
        THEN Ends(Raise(692, "IndexError"))
        ELSE WithLocal("host_count", loop.host_count,
             IF controller_host_count_low(loop.host_count)
        THEN Ends(Return(699, -1, <<"count of ip addresses < 3", loop.host_count>>))
        ELSE IF ~ip_mask_valid(ip_pool_mask)
        THEN Ends(Return(703, -1, <<"Invalid ip_pool_mask", ip_pool_mask>>))
        ELSE IF ~ip_valid(ip_pool_gateway)
        THEN Ends(Return(712, -1, <<"Invalid ip_pool_gateway", ip_pool_gateway>>))
        ELSE IF response_status # 201
        THEN EndsAfter(<<request>>, Return(750, -1, <<"response.read()">>))
        ELSE EndsAfter(<<request>>, Return(753, 0, <<"response.read()">>)))

(***************************************************************************)
(* Registration, licence, segment id range and transport zone              *)
(***************************************************************************)
\* what get_sha1_thumbprint and get_sha256_thumbprint return: "not found"
\* when the connection fails, the digest of the certificate otherwise
Thumbprints == {"not found", "AA:BB"}

\* the thumbprints tried: one in a whole run of main, where the requests are many
Certificates == IF mainv.running THEN {"AA:BB"} ELSE Thumbprints

SsoPath == "/api/2.0/services/ssoconfig"

VcPath == "/api/2.0/services/vcconfig"

SegmentsPath == "/api/2.0/vdn/config/segments"

ScopesPath == "/api/2.0/vdn/scopes"

\* if response.status != 200
sso_failed(response_status) == response_status # 200

register_nsx_with_lookup_service(lookup_service_address, vcenter_username, vcenter_password, thumbprint, response_status) ==
    LET xml_string == [ssoLookupServiceUrl |->
                           <<"https://", lookup_service_address, ":443/lookupservice/sdk">>,
                       ssoAdminUsername |-> vcenter_username,
                       ssoAdminUserpassword |-> vcenter_password,
                       certificateThumbprint |-> thumbprint]
        request == HttpRequest("POST", SsoPath, xml_string, response_status)
    IN  IF sso_failed(response_status)
        THEN EndsAfter(<<request>>, Return(301, -1, <<"response.read()">>))
        ELSE EndsAfter(<<request>>, Return(304, 0, <<"response.read()">>))

\* if response.status != 200
vcenter_failed(response_status) == response_status # 200

register_nsx_with_vcenter(vcenter_address, vcenter_username, vcenter_password, thumbprint, response_status) ==
    LET xml_string == [ipAddress |-> vcenter_address,
                       userName |-> vcenter_username,
                       password |-> vcenter_password,
                       certificateThumbprint |-> thumbprint,
                       assignRoleToUser |-> "true"]
        request == HttpRequest("PUT", VcPath, xml_string, response_status)
    IN  IF vcenter_failed(response_status)
        THEN EndsAfter(<<request>>, Return(333, -1, <<"response.read()">>))
        ELSE EndsAfter(<<request>>, Return(336, 0, <<"response.read()">>))

\* a test against 200 in place of 201
segment_failed_unless_200(response_status) == response_status # 200

\* if response.status != 201
segment_failed(response_status) == response_status # 201

set_segment_id_range(response_status) ==
    LET xml_string == [name |-> "Segment 1", desc |-> "Range 1",
                       begin |-> 5000, end |-> 10000]
        request == HttpRequest("POST", SegmentsPath, xml_string, response_status)
    IN  IF segment_failed(response_status)
        THEN EndsAfter(<<request>>, Return(271, -1, <<"response.read()">>))
        ELSE EndsAfter(<<request>>, Return(274, 0, <<"response.read()">>))

\* if response.status != 201
zone_failed(response_status) == response_status # 201

create_transport_zone(cluster_moref_list, response_status) ==
    LET xml_string == [name |-> "Primary",
                       clusters |-> cluster_moref_list,
                       controlPlaneMode |-> "UNICAST_MODE"]
        request == HttpRequest("POST", ScopesPath, xml_string, response_status)
    IN  IF zone_failed(response_status)
        THEN EndsAfter(<<request>>, Return(578, -1, <<"response.read()">>))
        ELSE EndsAfter(<<request>>, Return(581, 0, <<"response.read()">>))

\* a call of the license manager of vCenter
Soap(call, argument) == [ev |-> "soap", call |-> call, argument |-> argument]

CallRegisterNsxWithLookupService ==
    /\ pc = "register_nsx_with_lookup_service"
    /\ \E response_status \in Answers, thumbprint \in Certificates :
           LET r == register_nsx_with_lookup_service(frame.lookup_service_address,
                        frame.vcenter_username, frame.vcenter_password,
                        thumbprint, response_status)
           IN  ret' = r.end /\ log' = log \o r.sent
    /\ pc' = "done"
    /\ UNCHANGED <<frame, src, mainv>>

CallRegisterNsxWithVcenter ==
    /\ pc = "register_nsx_with_vcenter"
    /\ \E response_status \in Answers, thumbprint \in Certificates :
           LET r == register_nsx_with_vcenter(frame.vcenter_address,
                        frame.vcenter_username, frame.vcenter_password,
                        thumbprint, response_status)
           IN  ret' = r.end /\ log' = log \o r.sent
    /\ pc' = "done"
    /\ UNCHANGED <<frame, src, mainv>>

\* add_nsx_license_key: three calls of the license manager, then return 0
CallAddNsxLicenseKey ==
    /\ pc = "add_nsx_license_key"
    /\ log' = log \o <<Soap("AddLicense", frame.key),
                       Soap("QueryAssignedLicenses", "none"),
                       Soap("UpdateAssignedLicense", frame.key)>>
    /\ ret' = Return(244, 0, "none")
    /\ pc' = "done"
    /\ UNCHANGED <<frame, src, mainv>>

CallSetSegmentIdRange ==
    /\ pc = "set_segment_id_range"
    /\ \E response_status \in Answers :
           LET r == set_segment_id_range(response_status)
           IN  ret' = r.end /\ log' = log \o r.sent
    /\ pc' = "done"
    /\ UNCHANGED <<frame, src, mainv>>

CallCreateTransportZone ==
    /\ pc = "create_transport_zone"
    /\ \E response_status \in Answers :
           LET r == create_transport_zone(frame.cluster_moref_list, response_status)
           IN  ret' = r.end /\ log' = log \o r.sent
    /\ pc' = "done"
    /\ UNCHANGED <<frame, src, mainv>>

(***************************************************************************)
(* Objects of the datacenter                                               *)
(***************************************************************************)
\* the datacenter `dc` of the run: each object has a name and prints as
\* 'type:id'
Datacenter ==
    [name |-> <<"d", "c">>,
     datastore |->
        <<[name |-> <<"d", "1">>, type |-> "vim.Datastore", id |-> "datastore-11"],
          [name |-> <<"d", "2">>, type |-> "vim.Datastore", id |-> "datastore-12"],
          [name |-> <<"d", "3">>, type |-> "vim.Datastore", id |-> "datastore-13"],
          [name |-> <<"d", "1">>, type |-> "vim.Datastore", id |-> "datastore-14"]>>,
     hostFolder |->
        <<[name |-> <<"c", "1">>, type |-> "vim.ClusterComputeResource", id |-> "domain-c7",
           resourcePool |-> [type |-> "vim.ResourcePool", id |-> "resgroup-8"]],
          [name |-> <<"c", "2">>, type |-> "vim.ClusterComputeResource", id |-> "domain-c8",
           resourcePool |-> [type |-> "vim.ResourcePool", id |-> "resgroup-9"]],
          [name |-> <<"c", "1">>, type |-> "vim.ClusterComputeResource", id |-> "domain-c9",
           resourcePool |-> [type |-> "vim.ResourcePool", id |-> "resgroup-10"]]>>,
     network |->
        <<[name |-> <<"n", "1">>, type |-> "vim.dvs.DistributedVirtualPortgroup",
           id |-> "dvportgroup-21"],
          [name |-> <<"n", "1">>, type |-> "vim.dvs.DistributedVirtualPortgroup",
           id |-> "dvportgroup-22"]>>,
     networkFolder |->
        <<[name |-> <<"s", "1">>, type |-> "vim.dvs.VmwareDistributedVirtualSwitch",
           id |-> "dvs-30"],
          [name |-> <<"s", "1">>, type |-> "vim.dvs.VmwareDistributedVirtualSwitch",
           id |-> "dvs-31"]>>]

\* a datacenter without a distributed switch and one without a cluster
DatacenterNoSwitch ==
    [Datacenter EXCEPT !.name = <<"d", "0">>, !.networkFolder = <<>>]

DatacenterNoCluster ==
    [Datacenter EXCEPT !.name = <<"d", "1">>, !.hostFolder = <<>>]

\* si.content.rootFolder.childEntity
RootFolder == <<Datacenter, DatacenterNoSwitch, DatacenterNoCluster>>

Lookup(what, name) == [ev |-> "lookup", what |-> what, name |-> name]

\* index of the last object of the list with this name, 0 if there is none
LastNamed(name, obj_list) ==
    LET hits == {i \in 1..Len(obj_list) : obj_list[i].name = name}
    IN  IF hits = {} THEN 0 ELSE CHOOSE i \in hits : \A j \in hits : i >= j

\* index of the first object of the list with this name, 0 if there is none
FirstNamed(name, obj_list) ==
    LET hits == {i \in 1..Len(obj_list) : obj_list[i].name = name}
    IN  IF hits = {} THEN 0 ELSE CHOOSE i \in hits : \A j \in hits : i <= j

\* str(obj).replace(prefix + ':', '').replace("'", "")
Moref(obj, prefix) == IF obj.type = prefix THEN obj.id ELSE <<obj.type, obj.id>>

get_network(dc, name) ==
    LET i == FirstNamed(name, dc.network)
    IN  IF i # 0 THEN [found |-> TRUE, obj |-> dc.network[i]]
        ELSE [found |-> FALSE, end |-> Raise(865, "Exception")]

get_obj_in_list(obj_name, obj_list) ==
    LET i == FirstNamed(obj_name, obj_list)
    IN  IF i # 0 THEN [found |-> TRUE, obj |-> obj_list[i]]
        ELSE IF obj_list = <<>>
        THEN [found |-> FALSE, end |-> Raise(896, "UnboundLocalError")]
        ELSE [found |-> FALSE, end |-> Exit(898, 1)]

get_cluster_rp(dc, name) ==
    LET c == get_obj_in_list(name, dc.hostFolder)
    IN  IF c.found THEN [found |-> TRUE, obj |-> c.obj.resourcePool] ELSE c

get_ds(dc, name) ==
    LET i == FirstNamed(name, dc.datastore)
    IN  IF i # 0 THEN [found |-> TRUE, obj |-> dc.datastore[i]]
        ELSE [found |-> FALSE, end |-> Raise(887, "Exception")]

get_cluster_moref(dc, name) == get_obj_in_list(name, dc.hostFolder)

get_dvs_moref(dc, name) == get_obj_in_list(name, dc.networkFolder)

\* get_dc over si.content.rootFolder.childEntity
get_dc(rootFolder, name) ==
    LET i == FirstNamed(name, rootFolder)
    IN  IF i # 0 THEN [found |-> TRUE, obj |-> rootFolder[i]]
        ELSE [found |-> FALSE, end |-> Raise(875, "Exception")]

(***************************************************************************)
(* deploy_nsx_controllers                                                  *)
(***************************************************************************)
ControllerPath == "/api/2.0/vdn/controller"

\* a two-element list padded with its first datastore
pad_datastore_list_with_first(controller_datastore_list) ==
    IF Len(controller_datastore_list) = 1
    THEN <<controller_datastore_list[1], controller_datastore_list[1],
           controller_datastore_list[1]>>
    ELSE IF Len(controller_datastore_list) = 2
    THEN Append(controller_datastore_list, controller_datastore_list[1])
    ELSE controller_datastore_list

\* the two branches that append to controller_datastore_list
pad_datastore_list(controller_datastore_list) ==
    IF Len(controller_datastore_list) = 1
    THEN Append(Append(controller_datastore_list, controller_datastore_list[1]),
                controller_datastore_list[1])
    ELSE IF Len(controller_datastore_list) = 2
    THEN Append(controller_datastore_list, controller_datastore_list[2])
    ELSE controller_datastore_list

\* the loop over controller_datastore_list from its k-th element on
RECURSIVE datastore_loop(_, _, _, _)
datastore_loop(dc, controller_datastore_list, k, controller_datastore_ids) ==
    IF k > Len(controller_datastore_list)
    THEN [exit |-> "end", ids |-> controller_datastore_ids, looked |-> k - 1]
    ELSE LET ds == get_ds(dc, controller_datastore_list[k])
         IN  IF ~ds.found THEN [exit |-> "raise", end |-> ds.end, looked |-> k]
             ELSE datastore_loop(dc, controller_datastore_list, k + 1,
                      Append(controller_datastore_ids, Moref(ds.obj, "vim.Datastore")))

controllerSpec(controller_ip_pool_id, resource_pool_id, datastore_id, controller_network_id, controller_password) ==
    [name |-> "HCI",
     ipPoolId |-> controller_ip_pool_id,
     resourcePoolId |-> resource_pool_id,
     datastoreId |-> datastore_id,
     networkId |-> controller_network_id,
     password |-> controller_password]

\* a decode that takes a str as it is
decode_never_raises(controller_ip_pool_id) == FALSE

\* controller_ip_pool_id.decode('utf-8'): bytes has decode, str has not
decode_raises(controller_ip_pool_id) == controller_ip_pool_id.type # "bytes"

\* lines 349-374: the lookups, the decoding of the pool id and the datastore list
DeployLookups ==
    /\ pc = "deploy_nsx_controllers"
    /\ LET network == get_network(frame.dc, frame.controller_network)
           rp == get_cluster_rp(frame.dc, frame.controller_cluster)
           controller_datastore_list ==
               pad_datastore_list(Split(frame.controller_datastores, ","))
           loop == datastore_loop(frame.dc, controller_datastore_list, 1, <<>>)
           looked1 == <<Lookup("network", frame.controller_network)>>
           looked2 == Append(looked1, Lookup("cluster", frame.controller_cluster))
           looked3 == looked2 \o [k \in 1..loop.looked |->
                                     Lookup("datastore", controller_datastore_list[k])]
       IN  IF ~network.found
           THEN /\ ret' = network.end /\ log' = log \o looked1
                /\ pc' = "done" /\ frame' = frame
           ELSE IF ~rp.found
           THEN /\ ret' = rp.end /\ log' = log \o looked2
                /\ pc' = "done" /\ frame' = frame
           ELSE IF decode_raises(frame.controller_ip_pool_id)
           THEN /\ ret' = Raise(353, "AttributeError") /\ log' = log \o looked2
                /\ pc' = "done" /\ frame' = frame
           ELSE IF loop.exit = "raise"
           THEN /\ ret' = loop.end /\ log' = log \o looked3
                /\ pc' = "done" /\ frame' = frame
           ELSE /\ frame' = [controller_network_id |->
                                Moref(network.obj, "vim.dvs.DistributedVirtualPortgroup"),
                             resource_pool_id |-> Moref(rp.obj, "vim.ResourcePool"),
                             pool_id |-> frame.controller_ip_pool_id.text,
                             controller_datastore_list |-> controller_datastore_list,
                             controller_datastore_ids |-> loop.ids] @@ frame
                /\ log' = log \o looked3
                /\ pc' = "deploy_first"
                /\ ret' = ret
    /\ UNCHANGED <<src, mainv>>

DeployRequest(k, response_status) ==
    HttpRequest("POST", ControllerPath,
        controllerSpec(frame.pool_id, frame.resource_pool_id,
                       frame.controller_datastore_ids[k], frame.controller_network_id,
                       frame.controller_password),
        response_status)

\* lines 377-398: the first controller
DeployFirstController ==
    /\ pc = "deploy_first"
    /\ \E response_status \in Answers :
           log' = Append(log, DeployRequest(1, response_status))
    /\ pc' = "deploy_first_wait"
    /\ UNCHANGED <<frame, ret, src, mainv>>

\* the first wait left out
DeployFirstWaitSkipped ==
    /\ pc = "deploy_first_wait"
    /\ pc' = "deploy_second"
    /\ UNCHANGED <<frame, log, ret, src, mainv>>

\* lines 400-401
DeployFirstWait ==
    /\ pc = "deploy_first_wait"
    /\ log' = Append(log, Sleep(600))
    /\ pc' = "deploy_second"
    /\ UNCHANGED <<frame, ret, src, mainv>>

\* lines 405-425: the second controller
DeploySecondController ==
    /\ pc = "deploy_second"
    /\ \E response_status \in Answers :
           log' = Append(log, DeployRequest(2, response_status))
    /\ pc' = "deploy_second_wait"
    /\ UNCHANGED <<frame, ret, src, mainv>>

\* lines 427-428
DeploySecondWait ==
    /\ pc = "deploy_second_wait"
    /\ log' = Append(log, Sleep(600))
    /\ pc' = "deploy_third"
    /\ UNCHANGED <<frame, ret, src, mainv>>

\* a return that reports the status of the last response
DeployThirdControllerChecked ==
    /\ pc = "deploy_third"
    /\ \E response_status \in Answers :
           /\ log' = Append(log, DeployRequest(3, response_status))
           /\ ret' = IF response_status # 201
                     THEN Return(455, -1, <<"response.read()">>)
                     ELSE Return(455, 0, <<"response.read()">>)
    /\ pc' = "done"
    /\ UNCHANGED <<frame, src, mainv>>

\* lines 432-455: the third controller and the return
DeployThirdController ==
    /\ pc = "deploy_third"
    /\ \E response_status \in Answers :
           log' = Append(log, DeployRequest(3, response_status))
    /\ ret' = Return(455, 0, <<"response.read()">>)
    /\ pc' = "done"
    /\ UNCHANGED <<frame, src, mainv>>

(***************************************************************************)
(* prepare_clusters_for_dfw                                                *)
(***************************************************************************)
ConfigurePath == "/api/2.0/nwfabric/configure"

\* a test that takes every 2xx status for success
dfw_failed_unless_2xx(response_status) == response_status \div 100 # 2

\* if response.status != 200
dfw_failed(response_status) == response_status # 200

\* lines 461-479: one pass of the loop up to the test of the status
DfwPrepareCluster ==
    /\ pc = "prepare_clusters_for_dfw"
    /\ frame.k <= Len(frame.cluster_moref_list)
    /\ \E response_status \in Answers :
           /\ log' = Append(log, HttpRequest("POST", ConfigurePath,
                         [resourceId |-> frame.cluster_moref_list[frame.k]],
                         response_status))
           /\ IF dfw_failed(response_status)
              THEN ret' = Return(479, -1, <<"response.read()">>) /\ pc' = "done"
              ELSE ret' = ret /\ pc' = "dfw_wait"
    /\ UNCHANGED <<frame, src, mainv>>

\* lines 482-483, then the next element
DfwWait ==
    /\ pc = "dfw_wait"
    /\ log' = Append(log, Sleep(300))
    /\ frame' = [frame EXCEPT !.k = @ + 1]
    /\ pc' = "prepare_clusters_for_dfw"
    /\ UNCHANGED <<ret, src, mainv>>

\* lines 485-486: after the loop
DfwReturn ==
    /\ pc = "prepare_clusters_for_dfw"
    /\ frame.k > Len(frame.cluster_moref_list)
    /\ ret' = IF frame.cluster_moref_list = <<>>
              THEN Raise(486, "UnboundLocalError")
              ELSE Return(486, 0, <<"response.read()">>)
    /\ pc' = "done"
    /\ UNCHANGED <<frame, log, src, mainv>>

(***************************************************************************)
(* prepare_clusters_for_vxlan                                              *)
(***************************************************************************)
\* lines 493-496
VxlanEnter ==
    /\ pc = "prepare_clusters_for_vxlan"
    /\ IF frame.vtep_ip_pool_id.type # "bytes"
       THEN ret' = Raise(493, "AttributeError") /\ pc' = "done" /\ frame' = frame
       ELSE /\ frame' = [pool_id |-> frame.vtep_ip_pool_id.text] @@ frame
            /\ pc' = "vxlan_loop"
            /\ ret' = ret
    /\ UNCHANGED <<log, src, mainv>>

vxlan_xml_string(moref, dvs_moref, vtep_vlan_id, vtep_ip_pool_id) ==
    [featureId |-> "com.vmware.vshield.vsm.vxlan",
     resourceId |-> moref,
     switch |-> dvs_moref,
     vlanId |-> vtep_vlan_id,
     vmknicCount |-> 2,
     ipPoolId |-> vtep_ip_pool_id,
     vdsContext |-> [resourceId |-> dvs_moref, switch |-> dvs_moref, mtu |-> 9000,
                     teaming |-> "LOADBALANCE_SRCID"]]

\* if response.status != 200
vxlan_failed(response_status) == response_status # 200

\* lines 498-535: one pass of the loop up to the test of the status
VxlanPrepareCluster ==
    /\ pc = "vxlan_loop"
    /\ frame.k <= Len(frame.cluster_moref_list)
    /\ \E response_status \in Answers :
           /\ log' = Append(log, HttpRequest("POST", ConfigurePath,
                         vxlan_xml_string(frame.cluster_moref_list[frame.k],
                                          frame.dvs_moref, frame.vtep_vlan_id,
                                          frame.pool_id),
                         response_status))
           /\ IF vxlan_failed(response_status)
              THEN ret' = Return(535, -1, <<"response.read()">>) /\ pc' = "done"
              ELSE ret' = ret /\ pc' = "vxlan_wait"
    /\ UNCHANGED <<frame, src, mainv>>

\* lines 537-538, then the next element
VxlanWait ==
    /\ pc = "vxlan_wait"
    /\ log' = Append(log, Sleep(300))
    /\ frame' = [frame EXCEPT !.k = @ + 1]
    /\ pc' = "vxlan_loop"
    /\ UNCHANGED <<ret, src, mainv>>

\* lines 540-541: after the loop
VxlanReturn ==
    /\ pc = "vxlan_loop"
    /\ frame.k > Len(frame.cluster_moref_list)
    /\ ret' = IF frame.cluster_moref_list = <<>>
              THEN Raise(541, "UnboundLocalError")
              ELSE Return(541, 0, <<"response.read()">>)
    /\ pc' = "done"
    /\ UNCHANGED <<frame, log, src, mainv>>

(***************************************************************************)
(* Arguments the functions are called with                                 *)
(***************************************************************************)
\* '.'.join of four numbers
Quad(q) == Join(<<IntToStr(q[1]), IntToStr(q[2]), IntToStr(q[3]), IntToStr(q[4])>>, ".")

\* all strings over alphabet of length at most n
RECURSIVE StringsUpTo(_, _)
StringsUpTo(alphabet, n) ==
    IF n = 0 THEN {<<>>}
    ELSE LET shorter == StringsUpTo(alphabet, n - 1)
         IN  shorter \cup {Append(s, c) : s \in shorter, c \in alphabet}

\* all sequences over S of length 1..n
ListsUpTo(S, n) == UNION {[1..k -> S] : k \in 1..n}

MaskStrings == StringsUpTo({"/", "2", "4", "a"}, MaxMaskLen)

PoolMasks == {<<"/", "2", "4">>, <<"/", "2", "a">>, <<"2", "4">>}

\* DNS entries, as the four numbers of a dotted quad: one address and two
\* quads that are not addresses
DnsEntries == {<<8, 8, 8, 8>>, <<8, 8, 8, 256>>, <<8, 999, 8, 8>>}

DnsListStr(dns) == Join([k \in 1..Len(dns) |-> Quad(dns[k])], ",")

Gateways == {Quad(<<192, 168, 0, 254>>), Quad(<<192, 168, 0, 256>>)}

\* elements of a range list, each the sequence of the dotted quads that are
\* joined with '-': inclusive ranges of 10, 3 and 1 addresses, a range whose end
\* lies before its start, an element without '-', and elements with an
\* endpoint that is no address
RangeItems ==
    { <<(<<192, 168, 0, 1>>), (<<192, 168, 0, 10>>)>>,
      <<(<<192, 168, 0, 1>>), (<<192, 168, 0, 3>>)>>,
      <<(<<192, 168, 0, 3>>), (<<192, 168, 0, 3>>)>>,
      <<(<<192, 168, 0, 10>>), (<<192, 168, 0, 3>>)>>,
      <<(<<192, 168, 0, 1>>)>>,
      <<(<<192, 168, 0, 1>>), (<<192, 168, 0, 999>>)>>,
      <<(<<192, 168, 0, 999>>), (<<192, 168, 0, 1>>)>>,
      <<(<<192, 168, 0, 999>>)>> }

RangeStr(item) == Join([k \in 1..Len(item) |-> Quad(item[k])], "-")

RangeListStr(items) == Join([k \in 1..Len(items) |-> RangeStr(items[k])], ",")

DnsSuffix == <<"l", "a", "b">>

NoRet == [outcome |-> "none"]

InitMask ==
    \E mask \in MaskStrings :
        /\ pc = "ip_mask_valid"
        /\ frame = [fn |-> "ip_mask_valid", mask |-> mask]
        /\ src = [mask |-> mask]

InitVtepPool ==
    \E dns \in ListsUpTo(DnsEntries, MaxDns), items \in ListsUpTo(RangeItems, MaxRanges),
       mask \in PoolMasks, gw \in Gateways, n \in 1..MaxHosts :
        /\ pc = "create_vtep_ip_pool"
        /\ frame = [fn |-> "create_vtep_ip_pool",
                    ip_pool_list |-> RangeListStr(items),
                    ip_pool_mask |-> mask,
                    ip_pool_gateway |-> gw,
                    number_of_hosts |-> n,
                    ip_pool_dns |-> DnsListStr(dns),
                    dns_suffix |-> DnsSuffix]
        /\ src = [dns |-> dns, ranges |-> items]

InitControllerPool ==
    \E dns \in ListsUpTo(DnsEntries, MaxDns), items \in ListsUpTo(RangeItems, MaxRanges),
       mask \in PoolMasks, gw \in Gateways :
        /\ pc = "create_controller_ip_pool"
        /\ frame = [fn |-> "create_controller_ip_pool",
                    ip_pool_list |-> RangeListStr(items),
                    ip_pool_mask |-> mask,
                    ip_pool_gateway |-> gw,
                    ip_pool_dns |-> DnsListStr(dns),
                    ip_pool_suffix |-> DnsSuffix]
        /\ src = [dns |-> dns, ranges |-> items]

\* names of datastores: three of the datacenter and one it does not have
DatastoreNames == {<<"d", "1">>, <<"d", "2">>, <<"d", "3">>, <<"d", "x">>}

NetworkNames == {<<"n", "1">>, <<"n", "x">>}

ClusterNames == {<<"c", "1">>, <<"c", "x">>}

\* second element of a pool creation status: the response body (bytes) or a
\* validation message (str)
PoolIds == {[type |-> "bytes", text |-> "ipaddresspool-1"],
            [type |-> "str", text |-> "Invalid ip_pool_mask"]}

ClusterMorefs == {"domain-c7", "domain-c8", "domain-c9"}

InitDeploy ==
    \E datastores \in ListsUpTo(DatastoreNames, MaxDatastores),
       network \in NetworkNames, cluster \in ClusterNames, pool \in PoolIds :
        /\ pc = "deploy_nsx_controllers"
        /\ frame = [fn |-> "deploy_nsx_controllers",
                    controller_cluster |-> cluster,
                    controller_datastores |-> Join(datastores, ","),
                    controller_network |-> network,
                    controller_password |-> "password",
                    controller_ip_pool_id |-> pool,
                    dc |-> Datacenter]
        /\ src = [datastores |-> datastores]

InitDfw ==
    \E clusters \in ListsUpTo(ClusterMorefs, MaxClusters) :
        /\ pc = "prepare_clusters_for_dfw"
        /\ frame = [fn |-> "prepare_clusters_for_dfw",
                    cluster_moref_list |-> clusters,
                    k |-> 1]
        /\ src = [clusters |-> clusters]

InitVxlan ==
    \E clusters \in ListsUpTo(ClusterMorefs, MaxClusters), pool \in PoolIds :
        /\ pc = "prepare_clusters_for_vxlan"
        /\ frame = [fn |-> "prepare_clusters_for_vxlan",
                    cluster_moref_list |-> clusters,
                    dvs_moref |-> "dvs-30",
                    vtep_vlan_id |-> "20",
                    vtep_ip_pool_id |-> pool,
                    k |-> 1]
        /\ src = [clusters |-> clusters]

InitRegisterSso ==
    /\ pc = "register_nsx_with_lookup_service"
    /\ frame = [fn |-> "register_nsx_with_lookup_service",
                lookup_service_address |-> "vcsa1",
                vcenter_username |-> "administrator",
                vcenter_password |-> "secret"]
    /\ src = [none |-> TRUE]

InitRegisterVcenter ==
    /\ pc = "register_nsx_with_vcenter"
    /\ frame = [fn |-> "register_nsx_with_vcenter",
                vcenter_address |-> "vcsa1",
                vcenter_username |-> "administrator",
                vcenter_password |-> "secret"]
    /\ src = [none |-> TRUE]

InitLicense ==
    /\ pc = "add_nsx_license_key"
    /\ frame = [fn |-> "add_nsx_license_key", key |-> "XXXXX"]
    /\ src = [none |-> TRUE]

InitSegment ==
    /\ pc = "set_segment_id_range"
    /\ frame = [fn |-> "set_segment_id_range"]
    /\ src = [none |-> TRUE]

InitZone ==
    \E clusters \in ListsUpTo(ClusterMorefs, MaxClusters) :
        /\ pc = "create_transport_zone"
        /\ frame = [fn |-> "create_transport_zone", cluster_moref_list |-> clusters]
        /\ src = [clusters |-> clusters]

(***************************************************************************)
(* Calls                                                                   *)
(***************************************************************************)
CallIpMaskValid ==
    /\ pc = "ip_mask_valid"
    /\ ret' = [outcome |-> "return", at |-> 764, value |-> ip_mask_valid(frame.mask)]
    /\ log' = log
    /\ pc' = "done"
    /\ UNCHANGED <<frame, src, mainv>>

CallCreateVtepIpPool ==
    /\ pc = "create_vtep_ip_pool"
    /\ \E response_status \in Answers :
           LET r == create_vtep_ip_pool(frame.ip_pool_list, frame.ip_pool_mask,
                                        frame.ip_pool_gateway, frame.number_of_hosts,
                                        frame.ip_pool_dns, frame.dns_suffix,
                                        response_status)
           IN  ret' = r.end /\ log' = log \o r.sent
    /\ pc' = "done"
    /\ UNCHANGED <<frame, src, mainv>>

CallCreateControllerIpPool ==
    /\ pc = "create_controller_ip_pool"
    /\ \E response_status \in Answers :
           LET r == create_controller_ip_pool(frame.ip_pool_list, frame.ip_pool_mask,
                                              frame.ip_pool_gateway, frame.ip_pool_dns,
                                              frame.ip_pool_suffix, response_status)
           IN  ret' = r.end /\ log' = log \o r.sent
    /\ pc' = "done"
    /\ UNCHANGED <<frame, src, mainv>>

Init ==
    /\ log = <<>>
    /\ ret = NoRet
    /\ mainv = [running |-> FALSE]
    /\ \/ InitMask
       \/ InitVtepPool
       \/ InitControllerPool
       \/ InitDeploy
       \/ InitDfw
       \/ InitVxlan
       \/ InitRegisterSso
       \/ InitRegisterVcenter
       \/ InitLicense
       \/ InitSegment
       \/ InitZone

Next ==
    \/ CallIpMaskValid
    \/ CallCreateVtepIpPool
    \/ CallCreateControllerIpPool
    \/ DeployLookups
    \/ DeployFirstController
    \/ DeployFirstWait
    \/ DeploySecondController
    \/ DeploySecondWait
    \/ DeployThirdController
    \/ DfwPrepareCluster
    \/ DfwWait
    \/ DfwReturn
    \/ VxlanEnter
    \/ VxlanPrepareCluster
    \/ VxlanWait
    \/ VxlanReturn
    \/ CallRegisterNsxWithLookupService
    \/ CallRegisterNsxWithVcenter
    \/ CallAddNsxLicenseKey
    \/ CallSetSegmentIdRange
    \/ CallCreateTransportZone

Spec == Init /\ [][Next]_vars

(***************************************************************************)
(* The two pool functions side by side on one input                        *)
(***************************************************************************)
InitBoth ==
    /\ log = <<>>
    /\ ret = NoRet
    /\ mainv = [running |-> FALSE]
    /\ \E dns \in ListsUpTo(DnsEntries, MaxDns), items \in ListsUpTo(RangeItems, MaxRanges),
          mask \in PoolMasks, gw \in Gateways, n \in 1..MaxHosts :
           /\ pc = "both_pools"
           /\ frame = [fn |-> "both_pools",
                       ip_pool_list |-> RangeListStr(items),
                       ip_pool_mask |-> mask,
                       ip_pool_gateway |-> gw,
                       number_of_hosts |-> n,
                       ip_pool_dns |-> DnsListStr(dns),
                       dns_suffix |-> DnsSuffix]
           /\ src = [dns |-> dns, ranges |-> items]

\* create_vtep_ip_pool, then create_controller_ip_pool with the same arguments
CallBothPools ==
    /\ pc = "both_pools"
    /\ \E vtep_status \in Answers, controller_status \in Answers :
           LET v == create_vtep_ip_pool(frame.ip_pool_list, frame.ip_pool_mask,
                                        frame.ip_pool_gateway, frame.number_of_hosts,
                                        frame.ip_pool_dns, frame.dns_suffix, vtep_status)
               c == create_controller_ip_pool(frame.ip_pool_list, frame.ip_pool_mask,
                                              frame.ip_pool_gateway, frame.ip_pool_dns,
                                              frame.dns_suffix, controller_status)
           IN  /\ ret' = [outcome |-> "both", vtep |-> v, controller |-> c]
               /\ log' = log \o v.sent \o c.sent
    /\ pc' = "done"
    /\ UNCHANGED <<frame, src, mainv>>

NextBoth == CallBothPools

SpecBoth == InitBoth /\ [][NextBoth]_vars

(***************************************************************************)
(* main                                                                    *)
(***************************************************************************)
MaxPrepClusters == 2

\* main returns `value` at source line `line`
MainReturn(line, value) == [outcome |-> "return", at |-> line, value |-> value]

\* SmartConnectNoSSL(host=...) and whether it gave a service instance
Connect(host, connected) == [ev |-> "connect", host |-> host, connected |-> connected]

\* the second element of a status: response.read() is bytes, a message is str
PoolIdOf(status) ==
    [type |-> IF status.value = <<"response.read()">> THEN "bytes" ELSE "str",
     text |-> status.value]

\* the loop over cluster_prep_list from its k-th element on
RECURSIVE cluster_loop(_, _, _, _)
cluster_loop(dc, cluster_prep_list, k, cluster_moref_list) ==
    IF k > Len(cluster_prep_list)
    THEN [exit |-> "end", list |-> cluster_moref_list, looked |-> k - 1]
    ELSE LET c == get_cluster_moref(dc, cluster_prep_list[k])
         IN  IF ~c.found THEN [exit |-> "stop", end |-> c.end, looked |-> k]
             ELSE cluster_loop(dc, cluster_prep_list, k + 1,
                      Append(cluster_moref_list,
                             Moref(c.obj, "vim.ClusterComputeResource")))

\* the lists of cluster names of each length up to n: existing clusters in
\* turn, and the same with a last name that no cluster has
PrepLists(n) ==
    LET base == [k \in 1..n |-> IF k % 2 = 1 THEN <<"c", "1">> ELSE <<"c", "2">>]
    IN  UNION {{SubSeq(base, 1, k), Append(SubSeq(base, 1, k - 1), <<"c", "x">>)} :
                  k \in 1..n}

\* --datacenter: not given, the three datacenters, and a name none has
RunDatacenterNames ==
    {<<>>, <<"d", "c">>, <<"d", "0">>, <<"d", "1">>, <<"d", "x">>}

RunSwitchNames == {<<"s", "1">>, <<"s", "x">>}

\* ranges of 10 and of 3 addresses and an element without '-'
RunVtepRanges ==
    { << <<(<<192, 168, 0, 1>>), (<<192, 168, 0, 10>>)>> >>,
      << <<(<<192, 168, 0, 1>>), (<<192, 168, 0, 3>>)>> >>,
      << <<(<<192, 168, 0, 1>>)>> >> }

\* ranges of 10 addresses and of 1 address and an element without '-'
RunControllerRanges ==
    { << <<(<<192, 168, 0, 1>>), (<<192, 168, 0, 10>>)>> >>,
      << <<(<<192, 168, 0, 3>>), (<<192, 168, 0, 3>>)>> >>,
      << <<(<<192, 168, 0, 1>>)>> >> }

\* where the controllers go: names that exist, and one missing name at a time
RunControllerPlaces ==
    {[datastores |-> <<(<<"d", "1">>), (<<"d", "2">>)>>,
      network |-> <<"n", "1">>, cluster |-> <<"c", "1">>],
     [datastores |-> <<(<<"d", "1">>), (<<"d", "x">>)>>,
      network |-> <<"n", "1">>, cluster |-> <<"c", "1">>],
     [datastores |-> <<(<<"d", "1">>), (<<"d", "2">>)>>,
      network |-> <<"n", "x">>, cluster |-> <<"c", "1">>],
     [datastores |-> <<(<<"d", "1">>), (<<"d", "2">>)>>,
      network |-> <<"n", "1">>, cluster |-> <<"c", "x">>]}

InitMain ==
    /\ pc = "main"
    /\ frame = [fn |-> "main"]
    /\ log = <<>>
    /\ ret = NoRet
    /\ \E datacenter \in RunDatacenterNames,
          dvs \in RunSwitchNames, prep \in PrepLists(MaxPrepClusters),
          vtep \in RunVtepRanges, controller \in RunControllerRanges,
          place \in RunControllerPlaces :
           /\ src = [prep |-> prep, vtep |-> vtep, controller |-> controller,
                     datastores |-> place.datastores]
           /\ mainv = [running |-> TRUE,
                       rootFolder |-> RootFolder,
                       connected |-> FALSE,
                       calls |-> <<>>,
                       result |-> NoRet,
                       args |-> [host |-> "vcsa1", user |-> "administrator",
                                 password |-> "secret",
                                 lookup_service_address |-> "psc1",
                                 key |-> "XXXXX",
                                 datacenter |-> datacenter,
                                 DVS |-> dvs,
                                 cluster_prep_list |-> Join(prep, ","),
                                 VTEP_IP_Range |-> RangeListStr(vtep),
                                 VTEP_Mask |-> <<"/", "2", "4">>,
                                 VTEP_Gateway |-> Quad(<<192, 168, 0, 254>>),
                                 VTEP_DNS |-> Quad(<<8, 8, 8, 8>>),
                                 VTEP_domain |-> DnsSuffix,
                                 VTEP_VLAN_ID |-> "20",
                                 Controller_IP_Range |-> RangeListStr(controller),
                                 Controller_Mask |-> <<"/", "2", "4">>,
                                 Controller_Gateway |-> Quad(<<192, 168, 0, 254>>),
                                 Controller_DNS |-> Quad(<<8, 8, 8, 8>>),
                                 Controller_domain |-> DnsSuffix,
                                 Controller_Cluster |-> place.cluster,
                                 Controller_Datastores |-> Join(place.datastores, ","),
                                 Controller_Network |-> place.network,
                                 Controller_Password |-> "password"]]

\* an except branch that prints and does not return
MainConnectNoReturn ==
    /\ pc = "main"
    /\ \E connected \in BOOLEAN :
           /\ log' = Append(log, Connect(mainv.args.host, connected))
           /\ mainv' = [mainv EXCEPT !.connected = connected]
           /\ pc' = "main_lookups"
    /\ UNCHANGED <<frame, ret, src>>

\* lines 153-161: a failed connection is reported and main returns 1
MainConnect ==
    /\ pc = "main"
    /\ \E connected \in BOOLEAN :
           /\ log' = Append(log, Connect(mainv.args.host, connected))
           /\ IF connected
              THEN /\ mainv' = [mainv EXCEPT !.connected = TRUE]
                   /\ pc' = "main_lookups"
              ELSE /\ mainv' = [mainv EXCEPT !.result = MainReturn(161, 1)]
                   /\ pc' = "ended"
    /\ UNCHANGED <<frame, ret, src>>

\* lines 163-184: the datacenter, the switch and the clusters to prepare
MainLookups ==
    /\ pc = "main_lookups"
    /\ LET args == mainv.args
           d == IF args.datacenter # <<>>
                THEN get_dc(mainv.rootFolder, args.datacenter)
                ELSE [found |-> TRUE, obj |-> mainv.rootFolder[1]]
           looked0 == IF args.datacenter # <<>>
                      THEN <<Lookup("datacenter", args.datacenter)>> ELSE <<>>
           dvs == get_dvs_moref(d.obj, args.DVS)
           looked1 == Append(looked0, Lookup("dvs", args.DVS))
           cluster_prep_list == Split(args.cluster_prep_list, ",")
           loop == cluster_loop(d.obj, cluster_prep_list, 1, <<>>)
           looked2 == looked1 \o [k \in 1..loop.looked |->
                                     Lookup("cluster", cluster_prep_list[k])]
       IN  IF ~d.found
           THEN /\ mainv' = [mainv EXCEPT !.result = d.end]
                /\ log' = log \o looked0
                /\ pc' = "ended"
           ELSE IF ~dvs.found
           THEN /\ mainv' = [dc |-> d.obj] @@ [mainv EXCEPT !.result = dvs.end]
                /\ log' = log \o looked1
                /\ pc' = "ended"
           ELSE IF loop.exit = "stop"
           THEN /\ mainv' = [dc |-> d.obj] @@ [mainv EXCEPT !.result = loop.end]
                /\ log' = log \o looked2
                /\ pc' = "ended"
           ELSE /\ mainv' = [dc |-> d.obj,
                             dvs_moref |-> Moref(dvs.obj,
                                 "vim.dvs.VmwareDistributedVirtualSwitch"),
                             cluster_moref_list |-> loop.list] @@ mainv
                /\ log' = log \o looked2
                /\ pc' = "main_work"
    /\ UNCHANGED <<frame, ret, src>>

\* main has got back the tuple that `fn` returned
Returned(fn) == mainv.running /\ pc = "done" /\ frame.fn = fn /\ ret.outcome = "return"

\* line 190
MainCallRegisterSso ==
    /\ pc = "main_work"
    /\ frame' = [fn |-> "register_nsx_with_lookup_service",
                 lookup_service_address |-> mainv.args.lookup_service_address,
                 vcenter_username |-> mainv.args.user,
                 vcenter_password |-> mainv.args.password]
    /\ mainv' = [mainv EXCEPT !.calls = Append(@, "register_nsx_with_lookup_service")]
    /\ pc' = "register_nsx_with_lookup_service"
    /\ ret' = NoRet
    /\ UNCHANGED <<log, src>>

\* a main that gives up when the registration with the lookup service failed
MainCallRegisterVcenterUnlessFailed ==
    /\ Returned("register_nsx_with_lookup_service")
    /\ IF ret.status # 0
       THEN /\ mainv' = [register_sso_status |-> ret]
                            @@ [mainv EXCEPT !.result = MainReturn(191, 1)]
            /\ pc' = "ended"
            /\ UNCHANGED <<frame, ret>>
       ELSE /\ frame' = [fn |-> "register_nsx_with_vcenter",
                         vcenter_address |-> mainv.args.host,
                         vcenter_username |-> mainv.args.user,
                         vcenter_password |-> mainv.args.password]
            /\ mainv' = [register_sso_status |-> ret]
                            @@ [mainv EXCEPT !.calls = Append(@, "register_nsx_with_vcenter")]
            /\ pc' = "register_nsx_with_vcenter"
            /\ ret' = NoRet
    /\ UNCHANGED <<log, src>>

\* lines 190-194
MainCallRegisterVcenter ==
    /\ Returned("register_nsx_with_lookup_service")
    /\ frame' = [fn |-> "register_nsx_with_vcenter",
                 vcenter_address |-> mainv.args.host,
                 vcenter_username |-> mainv.args.user,
                 vcenter_password |-> mainv.args.password]
    /\ mainv' = [register_sso_status |-> ret]
                    @@ [mainv EXCEPT !.calls = Append(@, "register_nsx_with_vcenter")]
    /\ pc' = "register_nsx_with_vcenter"
    /\ ret' = NoRet
    /\ UNCHANGED <<log, src>>

\* lines 194-198
MainCallAddNsxLicenseKey ==
    /\ Returned("register_nsx_with_vcenter")
    /\ frame' = [fn |-> "add_nsx_license_key", key |-> mainv.args.key]
    /\ mainv' = [register_vcenter_status |-> ret]
                    @@ [mainv EXCEPT !.calls = Append(@, "add_nsx_license_key")]
    /\ pc' = "add_nsx_license_key"
    /\ ret' = NoRet
    /\ UNCHANGED <<log, src>>

\* line 201
MainCallSetSegmentIdRange ==
    /\ Returned("add_nsx_license_key")
    /\ frame' = [fn |-> "set_segment_id_range"]
    /\ mainv' = [mainv EXCEPT !.calls = Append(@, "set_segment_id_range")]
    /\ pc' = "set_segment_id_range"
    /\ ret' = NoRet
    /\ UNCHANGED <<log, src>>

\* lines 201-208: num_hosts is set to 2
MainCallCreateVtepIpPool ==
    /\ Returned("set_segment_id_range")
    /\ frame' = [fn |-> "create_vtep_ip_pool",
                 ip_pool_list |-> mainv.args.VTEP_IP_Range,
                 ip_pool_mask |-> mainv.args.VTEP_Mask,
                 ip_pool_gateway |-> mainv.args.VTEP_Gateway,
                 number_of_hosts |-> 2,
                 ip_pool_dns |-> mainv.args.VTEP_DNS,
                 dns_suffix |-> mainv.args.VTEP_domain]
    /\ mainv' = [segment_id_status |-> ret]
                    @@ [mainv EXCEPT !.calls = Append(@, "create_vtep_ip_pool")]
    /\ pc' = "create_vtep_ip_pool"
    /\ ret' = NoRet
    /\ UNCHANGED <<log, src>>

\* lines 208-214
MainCallCreateControllerIpPool ==
    /\ Returned("create_vtep_ip_pool")
    /\ frame' = [fn |-> "create_controller_ip_pool",
                 ip_pool_list |-> mainv.args.Controller_IP_Range,
                 ip_pool_mask |-> mainv.args.Controller_Mask,
                 ip_pool_gateway |-> mainv.args.Controller_Gateway,
                 ip_pool_dns |-> mainv.args.Controller_DNS,
                 ip_pool_suffix |-> mainv.args.Controller_domain]
    /\ mainv' = [vtep_ip_pool_status |-> ret, vtep_ip_pool_id |-> PoolIdOf(ret)]
                    @@ [mainv EXCEPT !.calls = Append(@, "create_controller_ip_pool")]
    /\ pc' = "create_controller_ip_pool"
    /\ ret' = NoRet
    /\ UNCHANGED <<log, src>>

\* lines 214-220
MainCallDeployNsxControllers ==
    /\ Returned("create_controller_ip_pool")
    /\ frame' = [fn |-> "deploy_nsx_controllers",
                 controller_cluster |-> mainv.args.Controller_Cluster,
                 controller_datastores |-> mainv.args.Controller_Datastores,
                 controller_network |-> mainv.args.Controller_Network,
                 controller_password |-> mainv.args.Controller_Password,
                 controller_ip_pool_id |-> PoolIdOf(ret),
                 dc |-> mainv.dc]
    /\ mainv' = [controller_ip_pool_status |-> ret,
                 controller_ip_pool_id |-> PoolIdOf(ret)]
                    @@ [mainv EXCEPT !.calls = Append(@, "deploy_nsx_controllers")]
    /\ pc' = "deploy_nsx_controllers"
    /\ ret' = NoRet
    /\ UNCHANGED <<log, src>>

\* the VXLAN preparation called where the DFW preparation belongs
MainCallVxlanBeforeDfw ==
    /\ Returned("deploy_nsx_controllers")
    /\ frame' = [fn |-> "prepare_clusters_for_vxlan",
                 cluster_moref_list |-> mainv.cluster_moref_list,
                 dvs_moref |-> mainv.dvs_moref,
                 vtep_vlan_id |-> mainv.args.VTEP_VLAN_ID,
                 vtep_ip_pool_id |-> mainv.vtep_ip_pool_id,
                 k |-> 1]
    /\ mainv' = [nsx_controller_status |-> ret]
                    @@ [mainv EXCEPT !.calls = Append(@, "prepare_clusters_for_vxlan")]
    /\ pc' = "prepare_clusters_for_vxlan"
    /\ ret' = NoRet
    /\ UNCHANGED <<log, src>>

\* lines 220-224
MainCallPrepareClustersForDfw ==
    /\ Returned("deploy_nsx_controllers")
    /\ frame' = [fn |-> "prepare_clusters_for_dfw",
                 cluster_moref_list |-> mainv.cluster_moref_list,
                 k |-> 1]
    /\ mainv' = [nsx_controller_status |-> ret]
                    @@ [mainv EXCEPT !.calls = Append(@, "prepare_clusters_for_dfw")]
    /\ pc' = "prepare_clusters_for_dfw"
    /\ ret' = NoRet
    /\ UNCHANGED <<log, src>>

\* lines 224-228
MainCallPrepareClustersForVxlan ==
    /\ Returned("prepare_clusters_for_dfw")
    /\ frame' = [fn |-> "prepare_clusters_for_vxlan",
                 cluster_moref_list |-> mainv.cluster_moref_list,
                 dvs_moref |-> mainv.dvs_moref,
                 vtep_vlan_id |-> mainv.args.VTEP_VLAN_ID,
                 vtep_ip_pool_id |-> mainv.vtep_ip_pool_id,
                 k |-> 1]
    /\ mainv' = [prepare_clusters_for_dfw_status |-> ret]
                    @@ [mainv EXCEPT !.calls = Append(@, "prepare_clusters_for_vxlan")]
    /\ pc' = "prepare_clusters_for_vxlan"
    /\ ret' = NoRet
    /\ UNCHANGED <<log, src>>

\* lines 228-232
MainCallCreateTransportZone ==
    /\ Returned("prepare_clusters_for_vxlan")
    /\ frame' = [fn |-> "create_transport_zone",
                 cluster_moref_list |-> mainv.cluster_moref_list]
    /\ mainv' = [prepare_clusters_for_vxlan_status |-> ret]
                    @@ [mainv EXCEPT !.calls = Append(@, "create_transport_zone")]
    /\ pc' = "create_transport_zone"
    /\ ret' = NoRet
    /\ UNCHANGED <<log, src>>

\* lines 232-233: main ends without a return statement
MainFinish ==
    /\ Returned("create_transport_zone")
    /\ mainv' = [create_transport_zone_status |-> ret]
                    @@ [mainv EXCEPT !.result = MainReturn(233, "None")]
    /\ pc' = "ended"
    /\ UNCHANGED <<frame, log, ret, src>>

\* an exception or an exit inside a helper is caught nowhere: the run ends
MainAbort ==
    /\ mainv.running
    /\ pc = "done"
    /\ ret.outcome \in {"raise", "exit"}
    /\ mainv' = [mainv EXCEPT !.result = ret]
    /\ pc' = "ended"
    /\ UNCHANGED <<frame, log, ret, src>>

NextMain ==
    \/ MainConnect
    \/ MainLookups
    \/ MainCallRegisterSso
    \/ CallRegisterNsxWithLookupService
    \/ MainCallRegisterVcenter
    \/ CallRegisterNsxWithVcenter
    \/ MainCallAddNsxLicenseKey
    \/ CallAddNsxLicenseKey
    \/ MainCallSetSegmentIdRange
    \/ CallSetSegmentIdRange
    \/ MainCallCreateVtepIpPool
    \/ CallCreateVtepIpPool
    \/ MainCallCreateControllerIpPool
    \/ CallCreateControllerIpPool
    \/ MainCallDeployNsxControllers
    \/ DeployLookups
    \/ DeployFirstController
    \/ DeployFirstWait
    \/ DeploySecondController
    \/ DeploySecondWait
    \/ DeployThirdController
    \/ MainCallPrepareClustersForDfw
    \/ DfwPrepareCluster
    \/ DfwWait
    \/ DfwReturn
    \/ MainCallPrepareClustersForVxlan
    \/ VxlanEnter
    \/ VxlanPrepareCluster
    \/ VxlanWait
    \/ VxlanReturn
    \/ MainCallCreateTransportZone
    \/ CallCreateTransportZone
    \/ MainFinish
    \/ MainAbort

SpecMain == InitMain /\ [][NextMain]_vars


(***************************************************************************)
(* Properties                                                              *)
(***************************************************************************)
Done(fn) == pc = "done" /\ frame.fn = fn

PoolDone == Done("create_vtep_ip_pool") \/ Done("create_controller_ip_pool")

\* the four numbers are those of an IPv4 address
QuadIsAddress(q) == \A i \in 1..4 : q[i] \in 0..255

\* the element is 'start-end' with two IPv4 addresses
WellFormedRange(item) ==
    Len(item) = 2 /\ QuadIsAddress(item[1]) /\ QuadIsAddress(item[2])

AllWellFormed(items) == \A k \in 1..Len(items) : WellFormedRange(items[k])

AllDnsValid(dns) == \A k \in 1..Len(dns) : QuadIsAddress(dns[k])

\* end - start + 1 of a well-formed range, the addresses read as 32-bit integers
InclusiveSize(item) ==
    (item[2][1] - item[1][1]) * 16777216 + (item[2][2] - item[1][2]) * 65536
        + (item[2][3] - item[1][3]) * 256 + (item[2][4] - item[1][4]) + 1

RECURSIVE TotalSize(_)
TotalSize(items) ==
    IF items = <<>> THEN 0 ELSE InclusiveSize(Head(items)) + TotalSize(Tail(items))

\* C1: ip_mask_valid accepts a string if and only if the whole string is '/'
\* followed by one or two decimal digits; every other string is rejected.
C1_MaskAcceptedIffSlashAndDigits ==
    Done("ip_mask_valid") =>
        (ret.value <=>
            /\ Len(src.mask) \in 2..3
            /\ src.mask[1] = "/"
            /\ \A i \in 2..Len(src.mask) : IsDigit(src.mask[i]))

\* C2: when every element of the range list is 'start-end' with two addresses
\* and some range has its end before its start, pool creation returns a
\* negative status and issues no HTTP request.
C2_ReversedRangeRejected ==
    (PoolDone /\ AllWellFormed(src.ranges)
        /\ \E k \in 1..Len(src.ranges) : InclusiveSize(src.ranges[k]) < 1)
    => (ret.outcome = "return" /\ ret.status < 0 /\ log = <<>>)

\* C3: for a list of well-formed 'start-end' ranges the host count that pool
\* creation compares against its minimum is the sum over the ranges of
\* (end - start + 1).
C3_HostCountIsSumOfInclusiveSizes ==
    (PoolDone /\ AllDnsValid(src.dns) /\ AllWellFormed(src.ranges))
    => ret.host_count = TotalSize(src.ranges)

C3_Witness ==
    /\ PoolDone
    /\ AllDnsValid(src.dns)
    /\ src.ranges = << <<(<<192, 168, 0, 1>>), (<<192, 168, 0, 10>>)>>,
                       <<(<<192, 168, 0, 1>>), (<<192, 168, 0, 3>>)>> >>
    /\ ret.host_count = 13

\* C4: create_vtep_ip_pool with valid DNS entries and well-formed ranges whose
\* total is below 2 * number_of_hosts returns -1 with the host count message
\* and issues no HTTP request; with a total of at least 2 * number_of_hosts the
\* host count check does not reject.
C4_VtepRejectsBelowTwicePerHost ==
    (Done("create_vtep_ip_pool") /\ AllDnsValid(src.dns) /\ AllWellFormed(src.ranges))
    => IF TotalSize(src.ranges) < 2 * frame.number_of_hosts
       THEN /\ ret.outcome = "return" /\ ret.at = 612 /\ ret.status = -1
            /\ ret.value = <<"count of ip addresses < (number_of_hosts * 2)",
                             TotalSize(src.ranges), frame.number_of_hosts>>
            /\ log = <<>>
       ELSE ret.at # 612

C4_Witness ==
    /\ Done("create_vtep_ip_pool")
    /\ AllDnsValid(src.dns)
    /\ frame.number_of_hosts = 2
    /\ src.ranges = << <<(<<192, 168, 0, 1>>), (<<192, 168, 0, 3>>)>> >>
    /\ ret.at = 612 /\ ret.status = -1 /\ log = <<>>

\* C5: create_controller_ip_pool with valid DNS entries and well-formed ranges
\* whose total is below 3 returns -1 with a message and issues no HTTP
\* request; with a total of 3 or more the host count check does not reject.
C5_ControllerRejectsBelowThree ==
    (Done("create_controller_ip_pool") /\ AllDnsValid(src.dns)
        /\ AllWellFormed(src.ranges))
    => IF TotalSize(src.ranges) < 3
       THEN /\ ret.outcome = "return" /\ ret.at = 699 /\ ret.status = -1
            /\ ret.value = <<"count of ip addresses < 3", TotalSize(src.ranges)>>
            /\ log = <<>>
       ELSE ret.at # 699

C5_Witness ==
    /\ Done("create_controller_ip_pool")
    /\ AllDnsValid(src.dns)
    /\ src.ranges = << <<(<<192, 168, 0, 3>>), (<<192, 168, 0, 3>>)>>,
                       <<(<<192, 168, 0, 3>>), (<<192, 168, 0, 3>>)>> >>
    /\ ret.at = 699 /\ ret.status = -1 /\ log = <<>>

\* C6: a pool creation call whose input fails validation, so that no request
\* is sent, returns a (negative status, message) pair and never raises.
C6_ValidationFailureReturnsNeverRaises ==
    (PoolDone /\ log = <<>>) => (ret.outcome = "return" /\ ret.status < 0)

\* C7: when the DNS list of a pool creation call has an invalid entry, the
\* call returns -1 naming the first invalid entry in list order and no HTTP
\* request has been issued, whatever the ranges, mask and gateway are.
C7_FirstInvalidDnsRejectedBeforeAnyRequest ==
    (PoolDone /\ ~AllDnsValid(src.dns))
    => LET first == CHOOSE k \in 1..Len(src.dns) :
                        /\ ~QuadIsAddress(src.dns[k])
                        /\ \A j \in 1..(k - 1) : QuadIsAddress(src.dns[j])
       IN  /\ ret.outcome = "return"
           /\ ret.status = -1
           /\ ret.value = <<"Invalid DNS address in ip_pool_dns", Quad(src.dns[first])>>
           /\ log = <<>>

C7_Witness ==
    /\ PoolDone
    /\ src.dns = <<(<<8, 8, 8, 8>>), (<<8, 999, 8, 8>>)>>
    /\ AllWellFormed(src.ranges)
    /\ ret.status = -1
    /\ ret.value[2] = Quad(<<8, 999, 8, 8>>)
    /\ log = <<>>

\* the requests and waits of the log, without the lookups
Outside(events) == SelectSeq(events, LAMBDA e : e.ev # "lookup")

IsControllerPost(e) == e.ev = "http" /\ e.method = "POST" /\ e.path = ControllerPath

ControllerPosts(events) == SelectSeq(events, IsControllerPost)

\* deploy_nsx_controllers has got past its lookups
DeployLookedUp ==
    frame.fn = "deploy_nsx_controllers" /\ "controller_datastore_ids" \in DOMAIN frame

\* the id of the datastore of the datacenter that has this name
DatastoreIdOf(name) ==
    Datacenter.datastore[CHOOSE k \in 1..Len(Datacenter.datastore) :
                             /\ Datacenter.datastore[k].name = name
                             /\ \A j \in 1..(k - 1) :
                                    Datacenter.datastore[j].name # name].id

\* C8: deploy_nsx_controllers pads a one- or two-element datastore list to
\* exactly three entries by repeating the last given datastore, and the i-th
\* controller request names the i-th entry of that list; with three or more
\* datastores the first three are used unchanged.
C8_DatastoresPaddedWithLast ==
    DeployLookedUp =>
        LET given == src.datastores
            posts == ControllerPosts(log)
        IN  /\ Len(given) <= 2 => Len(frame.controller_datastore_list) = 3
            /\ \A i \in 1..Len(posts) :
                   posts[i].body.datastoreId =
                       DatastoreIdOf(given[IF i <= Len(given) THEN i ELSE Len(given)])

C8_Witness ==
    /\ Done("deploy_nsx_controllers")
    /\ ret.outcome = "return"
    /\ src.datastores = <<(<<"d", "1">>), (<<"d", "2">>)>>
    /\ LET posts == ControllerPosts(log)
       IN  /\ Len(posts) = 3
           /\ posts[1].body.datastoreId = "datastore-11"
           /\ posts[2].body.datastoreId = "datastore-12"
           /\ posts[3].body.datastoreId = "datastore-12"

\* the kinds of event deploy_nsx_controllers produces once its lookups succeeded
IsDeployEvent(e, k) ==
    IF k \in {1, 3, 5} THEN IsControllerPost(e) ELSE e = Sleep(600)

\* C9: once its lookups have succeeded deploy_nsx_controllers issues exactly
\* three POST /api/2.0/vdn/controller requests one after another with a wait
\* of 600 seconds between a request and the next and none after the third,
\* whatever status the requests are answered with: until the third request
\* it can always go on, and it ends only after the third request.
C9_ThreeRequestsTwoWaits ==
    frame.fn = "deploy_nsx_controllers" =>
        LET out == Outside(log)
        IN  /\ Len(out) <= 5
            /\ \A k \in 1..Len(out) : IsDeployEvent(out[k], k)
            /\ ~DeployLookedUp => out = <<>>
            /\ (DeployLookedUp /\ pc # "done") => (Len(out) < 5 /\ ENABLED Next)
            /\ (DeployLookedUp /\ pc = "done") =>
                   (Len(out) = 5 /\ ret.outcome = "return")

C9_Witness ==
    /\ Done("deploy_nsx_controllers")
    /\ ret.outcome = "return"
    /\ LET out == Outside(log)
       IN  /\ Len(out) = 5
           /\ out[1].status = 400 /\ out[3].status = 400 /\ out[5].status = 201
           /\ out[2] = Sleep(600) /\ out[4] = Sleep(600)

PrepareRunning ==
    frame.fn \in {"prepare_clusters_for_dfw", "prepare_clusters_for_vxlan"}

\* C10: the cluster preparation loops issue one request per cluster in list
\* order; a response whose status is not 200 ends the function at once with
\* status -1: it is the last event of the log, so no request for a later
\* cluster and no wait follows it.
C10_PrepareStopsAtFirstFailure ==
    PrepareRunning =>
        LET posts == SelectSeq(log, LAMBDA e : e.ev = "http")
        IN  /\ Len(posts) <= Len(src.clusters)
            /\ \A i \in 1..Len(posts) :
                   /\ posts[i].path = ConfigurePath
                   /\ posts[i].body.resourceId = src.clusters[i]
            /\ \A k \in 1..Len(log) :
                   (log[k].ev = "http" /\ log[k].status # 200) =>
                       /\ k = Len(log)
                       /\ pc = "done"
                       /\ ret.outcome = "return"
                       /\ ret.status = -1
            /\ \A k \in 1..Len(log) :
                   log[k].ev = "sleep" =>
                       (k > 1 /\ log[k - 1].ev = "http" /\ log[k - 1].status = 200)

C10_Witness ==
    /\ Done("prepare_clusters_for_dfw")
    /\ Len(src.clusters) = 3
    /\ Len(log) = 3
    /\ log[1].ev = "http" /\ log[1].status = 200
    /\ log[2] = Sleep(300)
    /\ log[3].ev = "http" /\ log[3].status = 201
    /\ ret.status = -1

\* the calls that send one request and test its status against one code
SingleRequestCalls ==
    {"register_nsx_with_lookup_service", "register_nsx_with_vcenter",
     "set_segment_id_range", "create_vtep_ip_pool", "create_controller_ip_pool",
     "create_transport_zone"}

ExpectedStatus(fn) ==
    IF fn \in {"register_nsx_with_lookup_service", "register_nsx_with_vcenter"}
    THEN 200 ELSE 201

\* C11: the registration, segment range, pool creation (once validation has
\* passed) and transport zone calls send one request and return status 0
\* exactly when the HTTP status is the expected one (200 for the two
\* registrations, 201 for the others) and -1 for every other status; in both
\* cases they return the response body and do not raise.
C11_StatusZeroIffExpectedCode ==
    (pc = "done" /\ frame.fn \in SingleRequestCalls)
    => /\ frame.fn \notin {"create_vtep_ip_pool", "create_controller_ip_pool"}
              => log # <<>>
       /\ log # <<>> =>
              /\ Len(log) = 1
              /\ ret.outcome = "return"
              /\ ret.value = <<"response.read()">>
              /\ ret.status = IF log[1].status = ExpectedStatus(frame.fn) THEN 0 ELSE -1

C11_Witness ==
    /\ Done("set_segment_id_range")
    /\ Len(log) = 1 /\ log[1].status = 200
    /\ ret.outcome = "return" /\ ret.status = -1
    /\ ret.value = <<"response.read()">>

\* C17: deploy_nsx_controllers returns status 0 whenever it returns, whatever
\* the HTTP statuses of its three controller requests were.
C17_DeployAlwaysReturnsZero ==
    (Done("deploy_nsx_controllers") /\ ret.outcome = "return")
    => /\ ret.status = 0
       /\ Len(ControllerPosts(log)) = 3

C17_Witness ==
    /\ Done("deploy_nsx_controllers")
    /\ ret.outcome = "return" /\ ret.status = 0
    /\ LET posts == ControllerPosts(log)
       IN  Len(posts) = 3 /\ \A k \in 1..3 : posts[k].status = 400

\* the check of a pool function that the ending at this source line belongs to
PoolCheckAt(at) ==
    CASE at \in {592, 679} -> "dns"
      [] at \in {608, 695} -> "ranges"
      [] at \in {605, 692} -> "ranges, by an exception"
      [] at \in {612, 699} -> "host count"
      [] at \in {616, 703} -> "mask"
      [] at \in {625, 712} -> "gateway"
      [] at \in {663, 666, 750, 753} -> "none"

\* the host count meets both minimums or misses both
SameSideOfThresholds ==
    (AllDnsValid(src.dns) /\ AllWellFormed(src.ranges))
    => ((TotalSize(src.ranges) < 2 * frame.number_of_hosts)
            <=> (TotalSize(src.ranges) < 3))

\* the DNS and range entries of a pool request are those of the input, in order
EntriesAsGiven(body) ==
    /\ Len(body.dnsServers) = Len(src.dns)
    /\ \A k \in 1..Len(src.dns) : body.dnsServers[k] = Quad(src.dns[k])
    /\ Len(body.ipRanges) = Len(src.ranges)
    /\ \A k \in 1..Len(src.ranges) :
           /\ body.ipRanges[k].startAddress = Quad(src.ranges[k][1])
           /\ body.ipRanges[k].endAddress = Quad(src.ranges[k][2])

\* C18: on the same DNS list, range list, mask and gateway, with a host count
\* that meets both minimums or misses both, create_vtep_ip_pool and
\* create_controller_ip_pool agree on accepting or rejecting, on the check that
\* rejects (DNS, ranges, host count, mask, gateway, in this order) and on the
\* number and order of the DNS and range entries of the request.
C18_PoolFunctionsAgree ==
    (Done("both_pools") /\ SameSideOfThresholds)
    => LET v == ret.vtep
           c == ret.controller
       IN  /\ v.end.outcome = c.end.outcome
           /\ PoolCheckAt(v.end.at) = PoolCheckAt(c.end.at)
           /\ (v.sent = <<>>) <=> (c.sent = <<>>)
           /\ (v.sent = <<>>) <=> (PoolCheckAt(v.end.at) # "none")
           /\ v.sent # <<>> =>
                  /\ Len(v.sent) = 1 /\ Len(c.sent) = 1
                  /\ v.sent[1].body.dnsServers = c.sent[1].body.dnsServers
                  /\ v.sent[1].body.ipRanges = c.sent[1].body.ipRanges
                  /\ EntriesAsGiven(v.sent[1].body)
                  /\ EntriesAsGiven(c.sent[1].body)

\* both accept a pool of two ranges and two DNS servers
C18_Witness ==
    /\ Done("both_pools")
    /\ SameSideOfThresholds
    /\ Len(src.dns) = 2 /\ Len(src.ranges) = 2
    /\ ret.vtep.sent # <<>> /\ ret.controller.sent # <<>>
    /\ ret.vtep.sent[1].body.name = "VTEP-Pool"
    /\ ret.controller.sent[1].body.name = "Controller-Pool"

\* the connection to vCenter has been tried and has failed
ConnectionFailed ==
    \E i \in 1..Len(log) : log[i].ev = "connect" /\ ~log[i].connected

\* C13: when the connection to vCenter fails, main ends the run with return
\* value 1; no request has been sent to the NSX manager, no object has been
\* looked up and no helper has been called.
C13_ConnectionFailureReturnsOne ==
    ConnectionFailed
    => /\ pc = "ended"
       /\ mainv.result = MainReturn(161, 1)
       /\ \A i \in 1..Len(log) : log[i].ev \notin {"http", "lookup", "soap"}
       /\ mainv.calls = <<>>

C13_Witness ==
    /\ ConnectionFailed
    /\ pc = "ended"
    /\ mainv.result.outcome = "return" /\ mainv.result.value = 1

\* the ten helpers in the order of the claim
HelperOrder ==
    <<"register_nsx_with_lookup_service", "register_nsx_with_vcenter",
      "add_nsx_license_key", "set_segment_id_range", "create_vtep_ip_pool",
      "create_controller_ip_pool", "deploy_nsx_controllers",
      "prepare_clusters_for_dfw", "prepare_clusters_for_vxlan",
      "create_transport_zone">>

\* the helpers called so far are the first ones of the order; between two
\* calls the frame is that of the helper called last
CallsInOrder ==
    /\ Len(mainv.calls) <= Len(HelperOrder)
    /\ \A k \in 1..Len(mainv.calls) : mainv.calls[k] = HelperOrder[k]
    /\ (mainv.calls # <<>> /\ pc # "ended") => frame.fn = mainv.calls[Len(mainv.calls)]

\* a run that has got to the work phase ends after all ten helpers, or inside
\* the helper called last, by an exception or an exit of that helper
WorkPhaseEnds ==
    (pc = "ended" /\ mainv.calls # <<>>)
    => \/ mainv.calls = HelperOrder /\ mainv.result = MainReturn(233, "None")
       \/ /\ mainv.result.outcome \in {"raise", "exit"}
          /\ mainv.result = ret
          /\ frame.fn = mainv.calls[Len(mainv.calls)]

\* a helper is called when the one before it has returned, and it is the next
\* one of the order
CalledAfterReturn ==
    mainv.calls' # mainv.calls
    => /\ Len(mainv.calls) < Len(HelperOrder)
       /\ mainv.calls' = Append(mainv.calls, HelperOrder[Len(mainv.calls) + 1])
       /\ pc' = HelperOrder[Len(mainv.calls) + 1]
       /\ frame'.fn = HelperOrder[Len(mainv.calls) + 1]
       /\ mainv.calls # <<>> =>
              /\ pc = "done"
              /\ frame.fn = mainv.calls[Len(mainv.calls)]
              /\ ret.outcome = "return"

RequestsTo(path) == SelectSeq(log, LAMBDA e : e.ev = "http" /\ e.path = path)

\* a registration request of the run was answered with a status other than 200
RegistrationFailed ==
    \/ \E i \in 1..Len(log) :
           log[i].ev = "http" /\ log[i].path = SsoPath /\ log[i].status # 200
    \/ \E i \in 1..Len(log) :
           log[i].ev = "http" /\ log[i].path = VcPath /\ log[i].status # 200

\* the helpers after the registrations in which a run can end by an exception
\* or an exit
CanEndTheRun ==
    {"create_vtep_ip_pool", "create_controller_ip_pool", "deploy_nsx_controllers",
     "prepare_clusters_for_vxlan"}

\* the step main takes when a registration has returned -1: the call of the
\* helper that follows it
StepAfterFailedRegistration ==
    (/\ pc = "done" /\ pc' # pc
     /\ frame.fn \in {"register_nsx_with_lookup_service", "register_nsx_with_vcenter"}
     /\ ret.status = -1)
    => /\ pc' = HelperOrder[Len(mainv.calls) + 1]
       /\ mainv'.calls = Append(mainv.calls, pc')

\* a run with a failed registration ends after the last helper or inside a
\* later helper that raises or exits
EndsPastRegistration ==
    RegistrationFailed
    => /\ "register_sso_status" \in DOMAIN mainv =>
              mainv.register_sso_status.status =
                  IF RequestsTo(SsoPath)[1].status = 200 THEN 0 ELSE -1
       /\ pc = "ended" =>
              /\ Len(mainv.calls) >= 5
              /\ \/ mainv.calls = HelperOrder /\ mainv.result = MainReturn(233, "None")
                 \/ /\ mainv.calls[Len(mainv.calls)] \in CanEndTheRun
                    /\ mainv.result.outcome \in {"raise", "exit"}

\* C16: a registration that returns -1 (any HTTP status other than 200) does
\* not abort the run: main goes on to the license, the segment id range, the
\* pools and every later step.  The step after such a return is the call of
\* the next helper, and a run with a failed registration ends only after the
\* last helper or inside a later helper that raises or exits.
C16_FailedRegistrationDoesNotAbort ==
    /\ []EndsPastRegistration
    /\ [][StepAfterFailedRegistration]_vars

\* both registrations were answered 201 and the run went through all helpers
C16_Witness ==
    /\ pc = "ended"
    /\ mainv.calls = HelperOrder
    /\ mainv.register_sso_status.status = -1
    /\ mainv.register_vcenter_status.status = -1
    /\ Len(RequestsTo(SegmentsPath)) = 1
    /\ Len(RequestsTo(ScopesPath)) = 1

\* the Controller-Pool requests of the run
ControllerPoolRequests ==
    SelectSeq(log, LAMBDA e : /\ e.ev = "http"
                              /\ e.path = PoolPath
                              /\ e.body.name = "Controller-Pool")

\* create_controller_ip_pool has returned to main without sending a request
ControllerPoolRejected ==
    /\ ControllerPoolRequests = <<>>
    /\ \/ Len(mainv.calls) >= 7
       \/ Returned("create_controller_ip_pool")

\* every controller request carries the body of the answer to a Controller-Pool
\* request; after a rejected controller pool there is no controller request, and
\* the run ends inside deploy_nsx_controllers by an exception or an exit
PoolIdCameFromManager ==
    /\ \A i \in 1..Len(log) :
           IsControllerPost(log[i])
           => /\ log[i].body.ipPoolId = <<"response.read()">>
              /\ ControllerPoolRequests # <<>>
    /\ ControllerPoolRejected =>
           /\ ControllerPosts(log) = <<>>
           /\ Len(mainv.calls) <= 7
           /\ pc = "ended" =>
                  /\ mainv.calls[Len(mainv.calls)] = "deploy_nsx_controllers"
                  /\ mainv.result.outcome \in {"raise", "exit"}

\* the step main takes when create_controller_ip_pool has returned a message
DeployCalledAfterRejection ==
    (Returned("create_controller_ip_pool") /\ ControllerPoolRequests = <<>>
        /\ pc' # pc)
    => /\ pc' = "deploy_nsx_controllers"
       /\ frame'.controller_ip_pool_id.text = ret.value

\* C19: a controller deployment request is sent only with a pool id that came
\* back from the manager.  When create_controller_ip_pool rejects its input at
\* validation and returns a message, main still calls deploy_nsx_controllers,
\* and the run ends inside it by an exception or an exit before any POST
\* /api/2.0/vdn/controller: the message is never sent as an ipPoolId.
C19_RejectedPoolNeverDeployed ==
    /\ []PoolIdCameFromManager
    /\ [][DeployCalledAfterRejection]_vars

\* the host count check rejected the controller pool and decode raised
C19_Witness ==
    /\ pc = "ended"
    /\ ControllerPoolRejected
    /\ mainv.controller_ip_pool_status.at = 699
    /\ mainv.calls[Len(mainv.calls)] = "deploy_nsx_controllers"
    /\ mainv.result = Raise(353, "AttributeError")

\* a VXLAN preparation request for this cluster that was answered with 200
IsVxlanPrepared(e, moref) ==
    /\ e.ev = "http" /\ e.method = "POST" /\ e.path = ConfigurePath
    /\ "featureId" \in DOMAIN e.body
    /\ e.body.featureId = "com.vmware.vshield.vsm.vxlan"
    /\ e.body.resourceId = moref
    /\ e.status = 200

\* C15: every cluster bound into the 'Primary' transport zone request has been
\* prepared for VXLAN first: when main sends POST /api/2.0/vdn/scopes, each
\* cluster of its body has already had a VXLAN preparation request answered
\* with status 200.
C15_ZoneClustersPreparedForVxlan ==
    \A i \in 1..Len(log) :
        (log[i].ev = "http" /\ log[i].path = ScopesPath)
        => \A k \in 1..Len(log[i].body.clusters) :
               \E j \in 1..(i - 1) : IsVxlanPrepared(log[j], log[i].body.clusters[k])

\* the collection of the datacenter that a lookup of this kind searches
Collection(what, dc) ==
    CASE what = "datastore" -> dc.datastore
      [] what = "cluster" -> dc.hostFolder
      [] what = "dvs" -> dc.networkFolder
      [] what = "network" -> dc.network

LookupKinds == {"datastore", "cluster", "dvs", "network"}

\* the first object of the list that has this name
FirstOf(name, obj_list) ==
    obj_list[CHOOSE i \in 1..Len(obj_list) :
                 /\ obj_list[i].name = name
                 /\ \A j \in 1..(i - 1) : obj_list[j].name # name]

\* the i-th event of the log is a lookup of a name that no object of the
\* searched collection has
Missed(i) ==
    /\ log[i].ev = "lookup"
    /\ log[i].what \in LookupKinds
    /\ \A k \in 1..Len(Collection(log[i].what, mainv.dc)) :
           Collection(log[i].what, mainv.dc)[k].name # log[i].name

\* how the run has ended, or is about to end when a helper has just ended
Ending == IF pc = "ended" THEN mainv.result ELSE ret

\* the object references that main and deploy_nsx_controllers got from their
\* lookups are those of the first object with the name
FirstMatchWins ==
    /\ "dvs_moref" \in DOMAIN mainv =>
           /\ mainv.dvs_moref = FirstOf(mainv.args.DVS, mainv.dc.networkFolder).id
           /\ Len(mainv.cluster_moref_list) = Len(src.prep)
           /\ \A k \in 1..Len(src.prep) :
                  mainv.cluster_moref_list[k] = FirstOf(src.prep[k], mainv.dc.hostFolder).id
    /\ \A i \in 1..Len(log) :
           IsControllerPost(log[i])
           => /\ log[i].body.networkId =
                     FirstOf(mainv.args.Controller_Network, mainv.dc.network).id
              /\ log[i].body.resourcePoolId =
                     FirstOf(mainv.args.Controller_Cluster,
                             mainv.dc.hostFolder).resourcePool.id
              /\ \E k \in 1..Len(src.datastores) :
                     log[i].body.datastoreId =
                         FirstOf(src.datastores[k], mainv.dc.datastore).id

\* after a lookup that found nothing the run is over: the lookup is the last
\* event, and the helper or main itself has ended by a raise or an exit
NothingAfterMiss ==
    \A i \in 1..Len(log) :
        Missed(i) => /\ i = Len(log)
                     /\ pc \in {"done", "ended"}
                     /\ Ending.outcome \in {"raise", "exit"}

\* C12, as claimed: the lookup returns the first object with the name; when no
\* object matches, datastore, cluster and distributed switch lookups end the
\* process by an exit and the network lookup raises, and no later step of the
\* run is executed.
C12_MissExitsOrNetworkRaises ==
    /\ FirstMatchWins
    /\ NothingAfterMiss
    /\ \A i \in 1..Len(log) :
           Missed(i) => IF log[i].what = "network"
                        THEN Ending.outcome = "raise"
                        ELSE Ending.outcome = "exit"

\* C12, amended: the lookup returns the first object with the name; when no
\* object matches, datastore and network lookups raise an Exception, cluster
\* and distributed switch lookups end the process with exit(1), except that on
\* an empty collection the failure message raises UnboundLocalError; in every
\* case no later step of the run is executed.
C12_MissRaisesOrExits ==
    /\ FirstMatchWins
    /\ NothingAfterMiss
    /\ \A i \in 1..Len(log) :
           Missed(i) =>
               Ending = CASE log[i].what = "datastore" -> Raise(887, "Exception")
                          [] log[i].what = "network" -> Raise(865, "Exception")
                          [] OTHER ->
                              IF Collection(log[i].what, mainv.dc) = <<>>
                              THEN Raise(896, "UnboundLocalError")
                              ELSE Exit(898, 1)

\* a datastore that the datacenter has not got ended the run inside
\* deploy_nsx_controllers, after the first datastore had been found
C12_Witness ==
    /\ pc = "ended"
    /\ Len(log) >= 2
    /\ log[Len(log)] = Lookup("datastore", <<"d", "x">>)
    /\ log[Len(log) - 1] = Lookup("datastore", <<"d", "1">>)
    /\ mainv.result = Raise(887, "Exception")
    /\ mainv.calls[Len(mainv.calls)] = "deploy_nsx_controllers"

====
